---- MODULE Spec2Model ----
(***************************************************************************)
(* Model of bookmarks-html (src/utils.py): the URL-list to bookmarks.html  *)
(* pipeline of class Utils, its line parser, its configuration lookup and  *)
(* the ordering of BookmarkInfo.                                           *)
(*                                                                         *)
(* A Python str is modelled as a tuple of one-character strings, so that   *)
(* split, strip and the code-point comparison are computed, not assumed.   *)
(***************************************************************************)
EXTENDS Integers, Sequences, FiniteSets, TLC

VARIABLES
    pc,             \* position of the run: "fetch", "build", "done", "raised", "idle"
    urls,           \* Utils._get_urls(): the stripped lines of the urls file
    nread,          \* number of lines _get_bookmark_info was called for
    sort,           \* self._config.get("sort", False)
    bookmarks,      \* the list built by _get_bookmarks_list
    nbuilt,         \* number of records the loop of _build_bookmarks_dict has done
    bookmarks_dict, \* the nested dict of _build_bookmarks_dict
    elements,       \* children added to the parent by _build_bookmark_elements
    line,           \* one input line (parser and fetcher specifications)
    parsed,         \* result of _get_folders(line)
    read_favicon,   \* Utils.read_favicon
    rewrite_url,    \* Utils.rewrite_url
    outcome,        \* what the network and the HTML parser did for the last line
    result,         \* result of _get_bookmark_info(line)
    values,         \* Config._values, the loaded YAML document
    got             \* result of Config.get / Utils.__init__

vars == <<pc, urls, nread, sort, bookmarks, nbuilt, bookmarks_dict,
          elements, line, parsed, read_favicon, rewrite_url, outcome, result,
          values, got>>

\* ------------------------------------------------------------------ bounds

MaxLineLen == 5
MaxUrls == 3

\* ----------------------------------------------------------------- strings

\* Utils.__init__: defaults of the two separators
folder_separator == "|"
subfolder_separator == ","

\* ord() of the characters the model uses
Code(c) ==
    CASE c = " " -> 32
      [] c = "," -> 44
      [] c = "T" -> 84
      [] c = "a" -> 97
      [] c = "b" -> 98
      [] c = "r" -> 114
      [] c = "x" -> 120
      [] c = "y" -> 121
      [] c = "|" -> 124

Min(a, b) == IF a < b THEN a ELSE b

\* index of the first occurrence of character c in s, 0 when there is none
FirstIndex(s, c) ==
    IF \E i \in 1..Len(s) : s[i] = c
    THEN CHOOSE i \in 1..Len(s) : s[i] = c /\ \A j \in 1..(i - 1) : s[j] # c
    ELSE 0

\* str.split(sep) for a one-character sep: every occurrence splits
RECURSIVE Split(_, _)
Split(s, sep) ==
    LET i == FirstIndex(s, sep)
    IN  IF i = 0
        THEN <<s>>
        ELSE <<SubSeq(s, 1, i - 1)>> \o Split(SubSeq(s, i + 1, Len(s)), sep)

\* str.strip() (only the space character occurs in the model)
RECURSIVE Strip(_)
Strip(s) ==
    IF s = <<>> THEN s
    ELSE IF s[1] = " " THEN Strip(Tail(s))
    ELSE IF s[Len(s)] = " " THEN Strip(SubSeq(s, 1, Len(s) - 1))
    ELSE s

\* str.__lt__: lexicographic by code point
StrLt(s, t) ==
    \/ /\ Len(s) < Len(t)
       /\ \A i \in 1..Len(s) : s[i] = t[i]
    \/ \E i \in 1..Min(Len(s), Len(t)) :
          /\ \A j \in 1..(i - 1) : s[j] = t[j]
          /\ Code(s[i]) < Code(t[i])

\* list.__lt__ on lists of str: lexicographic, elements compared as str
ListLt(f, g) ==
    \/ /\ Len(f) < Len(g)
       /\ \A i \in 1..Len(f) : f[i] = g[i]
    \/ \E i \in 1..Min(Len(f), Len(g)) :
          /\ \A j \in 1..(i - 1) : f[j] = g[j]
          /\ StrLt(f[i], g[i])

\* ------------------------------------------------------------- line parser

\* a variant that keeps the text before the separator as one folder name
get_folders_unsplit(ln) ==
    LET items == Split(ln, folder_separator)
    IN  IF Len(items) > 1
        THEN [folders |-> <<items[1]>>, url |-> items[2]]
        ELSE [folders |-> <<>>, url |-> ln]

\* Utils._get_folders
get_folders(ln) ==
    LET items == Split(ln, folder_separator)
    IN  IF Len(items) > 1
        THEN [folders |-> Split(items[1], subfolder_separator), url |-> items[2]]
        ELSE [folders |-> <<>>, url |-> ln]

\* --------------------------------------------------------- BookmarkInfo

None == "None"

\* BookmarkInfo.__init__ (title, favicon and folders start as None)
BookmarkInfo(url, content) ==
    [url |-> url, title |-> <<>>, content |-> content, favicon |-> None,
     folders |-> <<>>]

\* BookmarkInfo.__lt__: both parts must be smaller
BookmarkLt(a, b) == ListLt(a.folders, b.folders) /\ StrLt(a.url, b.url)

\* ------------------------------------------------------------ page fetcher

\* response.content of a fetched page, and the empty content of a failed one
PageContent == "<html>"
EmptyContent == ""
\* the text of the page's <title> element, before strip()
PageTitle == <<" ", "T">>
\* response.url after a redirect
RedirectedUrl == <<"r">>
\* the data URI built from the first <link rel="icon">
FaviconData == "data:image/png;base64,AA=="

\* What the network and the HTML parser do for one line:
\*   fetch  requests' outcome for the page (raise_for_status included)
\*   final  whether response.url differs from the requested url
\*   parse  BeautifulSoup(content, "html.parser"): done, or the exception raised
\*   title  the page has no <title>, one without a string, or one with text
\*   icon   no <link rel="icon">, or the first one: fetched, its request
\*          failing, or a link with neither href nor type, for which
\*          mimetypes.guess_type(None) raises TypeError
Outcomes ==
    { [fetch |-> "RequestException", final |-> "same", parse |-> "ok",
       title |-> "absent", icon |-> "absent"] }
    \cup
    { [fetch |-> "ok", final |-> f, parse |-> e, title |-> "absent",
       icon |-> "absent"] :
         f \in {"same", "moved"}, e \in {"ImportError", "ParserRejectedMarkup"} }
    \cup
    { [fetch |-> "ok", final |-> f, parse |-> "ok", title |-> t, icon |-> i] :
         f \in {"same", "moved"}, t \in {"absent", "nostring", "text"},
         i \in {"absent", "ok", "RequestException", "nohref"} }

NoOutcome ==
    [fetch |-> "none", final |-> "none", parse |-> "none", title |-> "none",
     icon |-> "none"]

\* Utils._get_html, on a response that arrived
get_html(url, o, rewrite) ==
    LET response_url == IF o.final = "moved" THEN RedirectedUrl ELSE url
    IN  IF url # response_url /\ rewrite
        THEN BookmarkInfo(response_url, PageContent)
        ELSE BookmarkInfo(url, PageContent)

\* Utils._parse_title
parse_title(o, url) ==
    IF o.title = "text" THEN Strip(PageTitle) ELSE url

Returned(info) == [status |-> "returned", exc |-> None, info |-> info]
Raised(exc) == [status |-> "raised", exc |-> exc, info |-> BookmarkInfo(<<>>, EmptyContent)]
NoResult == [status |-> "none", exc |-> None, info |-> BookmarkInfo(<<>>, EmptyContent)]

\* Utils._get_bookmark_info: the try block, its two handlers and the three
\* assignments after them
get_bookmark_info(ln, o, favicon, rewrite) ==
    LET fu == get_folders(ln)
        url == fu.url
        finish(info, title, favicon_data) ==
            Returned([info EXCEPT !.title = title, !.favicon = favicon_data,
                                  !.folders = fu.folders])
    IN  IF o.fetch = "RequestException"
        THEN \* _get_html raised: bookmark_info is still None
             finish(BookmarkInfo(url, EmptyContent), url, None)
        ELSE LET bookmark_info == get_html(url, o, rewrite)
             IN  IF o.parse = "ImportError"
                 THEN \* except ImportError: bookmark_info is already set
                      finish(bookmark_info, url, None)
                 ELSE IF o.parse # "ok"
                 THEN \* no handler matches: the exception leaves the method
                      Raised(o.parse)
                 ELSE IF favicon /\ o.icon = "nohref"
                 THEN \* _determine_mime_type(None): no handler matches either
                      Raised("TypeError")
                 ELSE IF favicon /\ o.icon = "RequestException"
                 THEN \* _get_contents(favicon_url) raised inside the try block
                      finish(bookmark_info, url, None)
                 ELSE finish(bookmark_info, parse_title(o, url),
                             IF favicon /\ o.icon = "ok" THEN FaviconData ELSE None)

\* ------------------------------------------------------------------- sort

\* binarysort: the insertion point of pivot in l[lo..hi-1]
RECURSIVE BinarySearch(_, _, _, _)
BinarySearch(l, pivot, lo, hi) ==
    IF lo >= hi THEN lo
    ELSE LET p == lo + ((hi - lo) \div 2)
         IN  IF BookmarkLt(pivot, l[p])
             THEN BinarySearch(l, pivot, lo, p)
             ELSE BinarySearch(l, pivot, p + 1, hi)

\* binarysort: l[1..start-1] is sorted, insert l[start..Len(l)] one by one
RECURSIVE BinarySort(_, _)
BinarySort(l, start) ==
    IF start > Len(l) THEN l
    ELSE LET pivot == l[start]
             at == BinarySearch(l, pivot, 1, start)
             moved == SubSeq(l, 1, at - 1) \o <<pivot>> \o SubSeq(l, at, start - 1)
                      \o SubSeq(l, start + 1, Len(l))
         IN  BinarySort(moved, start + 1)

\* count_run: length of the run that starts the list; descending iff l[2] < l[1]
RECURSIVE RunEnd(_, _, _)
RunEnd(l, n, descending) ==
    IF n >= Len(l) THEN n
    ELSE IF BookmarkLt(l[n + 1], l[n]) = descending
    THEN RunEnd(l, n + 1, descending)
    ELSE n

Reverse(l) == [i \in 1..Len(l) |-> l[Len(l) + 1 - i]]

\* list.sort() of a list shorter than 64 elements: one run, extended by
\* binary insertion, every comparison made with BookmarkInfo.__lt__
list_sort(l) ==
    IF Len(l) < 2 THEN l
    ELSE LET descending == BookmarkLt(l[2], l[1])
             n == RunEnd(l, 2, descending)
             run == IF descending
                    THEN Reverse(SubSeq(l, 1, n)) \o SubSeq(l, n + 1, Len(l))
                    ELSE l
         IN  BinarySort(run, n + 1)

\* -------------------------------------------------------------- tree build

\* a Python dict: key/value pairs in insertion order, keys unique
DictHas(d, key) == \E i \in 1..Len(d) : d[i].key = key
DictGet(d, key) == d[CHOOSE i \in 1..Len(d) : d[i].key = key].value
DictSet(d, key, value) ==
    IF DictHas(d, key)
    THEN [i \in 1..Len(d) |-> IF d[i].key = key THEN [key |-> key, value |-> value] ELSE d[i]]
    ELSE Append(d, [key |-> key, value |-> value])

\* {BOOKMARKS_KEY: [], FOLDERS_KEY: {}}
EmptyNode == [bookmarks |-> <<>>, folders |-> <<>>]

\* a variant of the walk that never descends: every folder of the path is
\* created at the top level and the record lands in the last one
RECURSIVE add_to_folders_flat(_, _, _)
add_to_folders_flat(d, folders, info) ==
    LET folder == Head(folders)
        d1 == IF DictHas(d, folder) THEN d ELSE DictSet(d, folder, EmptyNode)
        child == DictGet(d1, folder)
    IN  IF Len(folders) = 1
        THEN DictSet(d1, folder, [child EXCEPT !.bookmarks = Append(@, info)])
        ELSE add_to_folders_flat(d1, Tail(folders), info)

\* a variant that puts the record at the front of the node's list
RECURSIVE add_to_folders_front(_, _, _)
add_to_folders_front(d, folders, info) ==
    LET folder == Head(folders)
        d1 == IF DictHas(d, folder) THEN d ELSE DictSet(d, folder, EmptyNode)
        child == DictGet(d1, folder)
    IN  IF Len(folders) = 1
        THEN DictSet(d1, folder, [child EXCEPT !.bookmarks = <<info>> \o @])
        ELSE DictSet(d1, folder,
                     [child EXCEPT !.folders = add_to_folders_front(@, Tail(folders), info)])

\* _build_bookmarks_dict, the inner loop "for folder in folders" and the
\* append: walk d down the path, creating missing nodes, and append the
\* record to the list of the last node
RECURSIVE add_to_folders(_, _, _)
add_to_folders(d, folders, info) ==
    LET folder == Head(folders)
        d1 == IF DictHas(d, folder) THEN d ELSE DictSet(d, folder, EmptyNode)
        child == DictGet(d1, folder)
    IN  IF Len(folders) = 1
        THEN DictSet(d1, folder, [child EXCEPT !.bookmarks = Append(@, info)])
        ELSE DictSet(d1, folder,
                     [child EXCEPT !.folders = add_to_folders(@, Tail(folders), info)])

\* _build_bookmarks_dict, one iteration of "for bookmark_info in bookmarks"
add_bookmark(bd, info) ==
    IF info.folders = <<>>
    THEN [bd EXCEPT !.bookmarks = Append(@, info)]
    ELSE [bd EXCEPT !.folders = add_to_folders(@, info.folders, info)]

\* ------------------------------------------------------------- renderer

\* BookmarkInfo.html(): <dt><a href=url icon=favicon>title</a></dt>
html(b) ==
    [tag |-> "a", text |-> b.title, href |-> b.url, icon |-> b.favicon,
     children |-> <<>>]

\* <dt><h3>folder</h3><dl><p>children</p></dl></dt>
FolderElement(folder, children) ==
    [tag |-> "h3", text |-> folder, href |-> <<>>, icon |-> None,
     children |-> children]

\* a variant that writes a folder's own bookmarks before its sub-folders
RECURSIVE build_folder_bookmark_elements_own_first(_, _)
build_folder_bookmark_elements_own_first(folder, bd) ==
    LET node == DictGet(bd.folders, folder)
        subfolders == [i \in 1..Len(node.folders) |->
                          build_folder_bookmark_elements_own_first(node.folders[i].key, node)]
        own == [i \in 1..Len(node.bookmarks) |-> html(node.bookmarks[i])]
    IN  FolderElement(folder, own \o subfolders)

\* Utils._build_folder_bookmark_elements
RECURSIVE build_folder_bookmark_elements(_, _)
build_folder_bookmark_elements(folder, bd) ==
    LET node == DictGet(bd.folders, folder)
        subfolders == [i \in 1..Len(node.folders) |->
                          build_folder_bookmark_elements(node.folders[i].key, node)]
        own == [i \in 1..Len(node.bookmarks) |-> html(node.bookmarks[i])]
    IN  FolderElement(folder, subfolders \o own)

\* Utils._build_bookmark_elements: what is added to the parent, in order
build_bookmark_elements(bd) ==
    [i \in 1..Len(bd.folders) |->
        build_folder_bookmark_elements(bd.folders[i].key, bd)]
    \o [i \in 1..Len(bd.bookmarks) |-> html(bd.bookmarks[i])]


\* ----------------------------------------------------------- configuration

\* the keys Utils.__init__ looks up, in the order it does
InitOrder ==
    <<"log_file", "log_level", "folder_separator", "subfolder_separator", "sleep",
      "random_sleep", "headers", "timeout", "rewrite_url", "favicon">>

InitKeys == { InitOrder[i] : i \in DOMAIN InitOrder }

\* the default Utils.__init__ passes for each key (Config.get's own for headers)
Default(key) ==
    CASE key = "log_file" -> "bookmark.log"
      [] key = "log_level" -> "DEBUG"
      [] key = "folder_separator" -> "|"
      [] key = "subfolder_separator" -> ","
      [] key = "sleep" -> "0"
      [] key = "random_sleep" -> "True"
      [] key = "headers" -> ""
      [] key = "timeout" -> "60"
      [] key = "rewrite_url" -> "True"
      [] key = "favicon" -> "False"

\* a value written in the document (a key written without one loads as None)
Written == "written"

\* yaml.safe_load: None for an empty document, else a mapping of the keys
\* the document holds
Documents ==
    { [is_none |-> TRUE, items |-> <<>>] }
    \cup
    { [is_none |-> FALSE, items |-> m] :
         m \in UNION { [S -> {None, Written}] : S \in SUBSET InitKeys } }

NoGot == [op |-> "none", status |-> "none", key |-> "", value |-> ""]

\* Config.get
config_get(vals, key, default) ==
    IF vals.is_none
    THEN [op |-> "get", status |-> "returned", key |-> key, value |-> default]
    ELSE IF key \notin DOMAIN vals.items
    THEN \* self._values[key] on a dict without the key
         [op |-> "get", status |-> "KeyError", key |-> key, value |-> ""]
    ELSE IF vals.items[key] = None
    THEN [op |-> "get", status |-> "returned", key |-> key, value |-> default]
    ELSE [op |-> "get", status |-> "returned", key |-> key, value |-> vals.items[key]]

\* Utils.__init__: the lookups in order; the first one that raises ends it
utils_init(vals) ==
    LET failing == { i \in DOMAIN InitOrder :
                        config_get(vals, InitOrder[i], Default(InitOrder[i])).status
                            # "returned" }
    IN  IF failing = {}
        THEN [op |-> "init", status |-> "returned", key |-> "",
              value |-> [k \in InitKeys |-> config_get(vals, k, Default(k)).value]]
        ELSE LET first == CHOOSE i \in failing : \A j \in failing : i <= j
             IN  [op |-> "init",
                  status |-> config_get(vals, InitOrder[first], Default(InitOrder[first])).status,
                  key |-> InitOrder[first], value |-> ""]

\* ------------------------------------------------------------------ inputs

\* the lines of the urls file the pipeline is run on
UrlLines ==
    { <<"x">>, <<"a", "|", "x">>, <<"a", "|", "y">>, <<"b", "|", "y">>,
      <<"a", ",", "b", "|", "y">> }

\* the characters of the lines the parser is run on
ParserAlphabet == {"|", ",", "a", "x"}

ParserLines == UNION { [1..n -> ParserAlphabet] : n \in 0..MaxLineLen }

UrlFiles == UNION { [1..n -> UrlLines] : n \in 0..MaxUrls }

\* the per-line outcomes the whole pipeline is run on: a page with a title,
\* a failed request, and the parser raising either exception
PipelineOutcomes ==
    { o \in Outcomes : /\ o.final = "same"
                       /\ o.icon = "absent"
                       /\ o.parse = "ok" /\ o.fetch = "ok" => o.title = "text" }

NoParsed == [done |-> FALSE, folders |-> <<>>, url |-> <<>>]
NoValues == [is_none |-> TRUE, items |-> <<>>]

\* --------------------------------------------------- specification: pipeline

Init ==
    /\ urls \in UrlFiles
    /\ sort \in BOOLEAN
    /\ pc = IF urls = <<>> THEN "build" ELSE "fetch"
    /\ nread = 0
    /\ bookmarks = <<>>
    /\ nbuilt = 0
    /\ bookmarks_dict = EmptyNode
    /\ elements = <<>>
    /\ line = <<>>
    /\ parsed = NoParsed
    /\ read_favicon = FALSE
    /\ rewrite_url = TRUE
    /\ outcome = NoOutcome
    /\ result = NoResult
    /\ values = NoValues
    /\ got = NoGot

\* _get_bookmarks_list: one element of the list comprehension; after the last
\* one the list is sorted when the sort option is set.  An exception that
\* _get_bookmark_info lets through ends the run.
FetchLine ==
    /\ pc = "fetch"
    /\ nread < Len(urls)
    /\ \E o \in PipelineOutcomes :
          /\ LET r == get_bookmark_info(urls[nread + 1], o, read_favicon, rewrite_url)
                 all == Append(bookmarks, r.info)
             IN  IF r.status = "raised"
                 THEN /\ pc' = "raised"
                      /\ bookmarks' = bookmarks
                 ELSE /\ pc' = IF nread + 1 = Len(urls) THEN "build" ELSE "fetch"
                      /\ bookmarks' = IF nread + 1 = Len(urls) /\ sort
                                      THEN list_sort(all)
                                      ELSE all
          /\ outcome' = o
    /\ nread' = nread + 1
    /\ UNCHANGED <<urls, sort, nbuilt, bookmarks_dict, elements, line, parsed,
                   read_favicon, rewrite_url, result, values, got>>

\* _build_bookmarks_dict: one iteration of the loop over the list
BuildStep ==
    /\ pc = "build"
    /\ nbuilt < Len(bookmarks)
    /\ bookmarks_dict' = add_bookmark(bookmarks_dict, bookmarks[nbuilt + 1])
    /\ nbuilt' = nbuilt + 1
    /\ UNCHANGED <<pc, urls, nread, sort, bookmarks, elements, line, parsed,
                   read_favicon, rewrite_url, outcome, result, values, got>>

\* _build_bookmark_elements, once the dict is complete
Render ==
    /\ pc = "build"
    /\ nbuilt = Len(bookmarks)
    /\ elements' = build_bookmark_elements(bookmarks_dict)
    /\ pc' = "done"
    /\ UNCHANGED <<urls, nread, sort, bookmarks, nbuilt, bookmarks_dict, line,
                   parsed, read_favicon, rewrite_url, outcome, result, values, got>>

Next == FetchLine \/ BuildStep \/ Render

Spec == Init /\ [][Next]_vars

\* ------------------------------------------------ specification: one line

PipelineIdle ==
    /\ pc = "idle"
    /\ urls = <<>>
    /\ nread = 0
    /\ sort = FALSE
    /\ bookmarks = <<>>
    /\ nbuilt = 0
    /\ bookmarks_dict = EmptyNode
    /\ elements = <<>>

InitFetch ==
    /\ PipelineIdle
    /\ line \in UrlLines
    /\ parsed = NoParsed
    /\ read_favicon \in BOOLEAN
    /\ rewrite_url \in BOOLEAN
    /\ outcome = NoOutcome
    /\ result = NoResult
    /\ values = NoValues
    /\ got = NoGot

\* one call of _get_bookmark_info(line)
GetBookmarkInfo ==
    /\ result.status = "none"
    /\ \E o \in Outcomes :
          /\ outcome' = o
          /\ result' = get_bookmark_info(line, o, read_favicon, rewrite_url)
    /\ UNCHANGED <<pc, urls, nread, sort, bookmarks, nbuilt, bookmarks_dict,
                   elements, line, parsed, read_favicon, rewrite_url, values, got>>

NextFetch == GetBookmarkInfo

SpecFetch == InitFetch /\ [][NextFetch]_vars

\* ---------------------------------------------- specification: line parser

InitParse ==
    /\ PipelineIdle
    /\ line \in ParserLines
    /\ parsed = NoParsed
    /\ read_favicon = FALSE
    /\ rewrite_url = TRUE
    /\ outcome = NoOutcome
    /\ result = NoResult
    /\ values = NoValues
    /\ got = NoGot

\* one call of _get_folders(line)
GetFolders ==
    /\ ~parsed.done
    /\ parsed' = [done |-> TRUE, folders |-> get_folders(line).folders,
                  url |-> get_folders(line).url]
    /\ UNCHANGED <<pc, urls, nread, sort, bookmarks, nbuilt, bookmarks_dict,
                   elements, line, read_favicon, rewrite_url, outcome, result,
                   values, got>>

NextParse == GetFolders

SpecParse == InitParse /\ [][NextParse]_vars

\* -------------------------------------------- specification: configuration

InitConfig ==
    /\ PipelineIdle
    /\ line = <<>>
    /\ parsed = NoParsed
    /\ read_favicon = FALSE
    /\ rewrite_url = TRUE
    /\ outcome = NoOutcome
    /\ result = NoResult
    /\ values \in Documents
    /\ got = NoGot

\* one call of Config.get(key, default)
ConfigGet ==
    /\ got.op = "none"
    /\ \E key \in InitKeys : got' = config_get(values, key, Default(key))
    /\ UNCHANGED <<pc, urls, nread, sort, bookmarks, nbuilt, bookmarks_dict,
                   elements, line, parsed, read_favicon, rewrite_url, outcome,
                   result, values>>

\* Utils(config_file), the document already loaded
UtilsInit ==
    /\ got.op = "none"
    /\ got' = utils_init(values)
    /\ UNCHANGED <<pc, urls, nread, sort, bookmarks, nbuilt, bookmarks_dict,
                   elements, line, parsed, read_favicon, rewrite_url, outcome,
                   result, values>>

NextConfig == ConfigGet \/ UtilsInit

SpecConfig == InitConfig /\ [][NextConfig]_vars


\* ============================================================== properties

Range(q) == { q[i] : i \in DOMAIN q }

IsPrefix(p, q) == Len(p) <= Len(q) /\ SubSeq(q, 1, Len(p)) = p

Front(p) == SubSeq(p, 1, Len(p) - 1)

\* the paths of all nodes below (and including) a node that sits at path
RECURSIVE NodePaths(_, _)
NodePaths(node, path) ==
    {path} \cup UNION { NodePaths(node.folders[i].value, Append(path, node.folders[i].key)) :
                           i \in DOMAIN node.folders }

\* the number of nodes of the tree, the root included
RECURSIVE NodeCount(_)
NodeCount(node) ==
    LET RECURSIVE Sum(_)
        Sum(i) == IF i = 0 THEN 0 ELSE NodeCount(node.folders[i].value) + Sum(i - 1)
    IN  1 + Sum(Len(node.folders))

\* the node reached from a node by following path through the folders mappings
RECURSIVE NodeAt(_, _)
NodeAt(node, path) ==
    IF path = <<>> THEN node
    ELSE NodeAt(DictGet(node.folders, Head(path)), Tail(path))

\* the records the tree builder has processed so far, in the order it got them
Processed == SubSeq(bookmarks, 1, nbuilt)

WithFolders(list, path) ==
    LET Here(r) == r.folders = path
    IN  SelectSeq(list, Here)

\* how often a record occurs in a list
Occurrences(list, r) == Cardinality({ i \in DOMAIN list : list[i] = r })

\* how often a record occurs in the whole tree
InTree(r) ==
    LET paths == NodePaths(bookmarks_dict, <<>>)
        RECURSIVE Sum(_)
        Sum(ps) == IF ps = {} THEN 0
                   ELSE LET q == CHOOSE q \in ps : TRUE
                        IN  Occurrences(NodeAt(bookmarks_dict, q).bookmarks, r)
                            + Sum(ps \ {q})
    IN  Sum(paths)

\* the non-empty prefixes of the folder paths of a list of records
FolderPaths(list) ==
    UNION { { SubSeq(list[j].folders, 1, n) : n \in 1..Len(list[j].folders) } :
               j \in DOMAIN list }

\* ---------------------------------------------------------------- C1
\* the processing of the line ended in a failed request (page or favicon) or
\* in a failure to parse the page for its title and favicon
Failed(o, favicon) ==
    \/ o.fetch = "RequestException"
    \/ o.parse # "ok"
    \/ favicon /\ o.icon \in {"RequestException", "nohref"}

\* C1: a line whose processing ends in a fetch failure or a parse failure
\* makes _get_bookmark_info return, not raise, a record with empty content
\* and the URL as its title.
C1_FailureGivesDegradedRecord ==
    (result.status # "none" /\ Failed(outcome, read_favicon)) =>
        /\ result.status = "returned"
        /\ result.info.content = EmptyContent
        /\ result.info.title = get_folders(line).url

\* ---------------------------------------------------------------- C2
\* C2: every line _get_bookmark_info was called for has yielded exactly one
\* record of the list, and once the tree is built it holds each record of
\* the list exactly as often as the list does.
C2_OneRecordPerLine ==
    /\ Len(bookmarks) = nread
    /\ pc = "done" =>
          /\ Len(bookmarks) = Len(urls)
          /\ \A r \in Range(bookmarks) : InTree(r) = Occurrences(bookmarks, r)

\* ---------------------------------------------------------------- C3
\* C3: for a line that contains folder_separator, the URL _get_folders
\* returns is the whole text after the first occurrence of the separator.
C3_UrlIsTextAfterFirstSeparator ==
    (parsed.done /\ FirstIndex(line, folder_separator) # 0) =>
        parsed.url = SubSeq(line, FirstIndex(line, folder_separator) + 1, Len(line))

\* ---------------------------------------------------------------- C4
\* sep.join(pieces), for a non-empty list
RECURSIVE Join(_, _)
Join(pieces, sep) ==
    IF Len(pieces) = 1 THEN pieces[1]
    ELSE pieces[1] \o <<sep>> \o Join(Tail(pieces), sep)

\* C4: without folder_separator in the line the folder path is empty and the
\* URL is the line; with it, the folders are the pieces of the text before
\* the first separator, cut at every subfolder_separator and kept in order:
\* no piece holds a subfolder_separator and the pieces joined by it give the
\* text back.  The line "a,a|x" gives folders ["a","a"] and url "x".
C4_FolderPath ==
    parsed.done =>
        LET at == FirstIndex(line, folder_separator)
        IN  /\ at = 0 => parsed.folders = <<>> /\ parsed.url = line
            /\ at # 0 =>
                  /\ Len(parsed.folders) >= 1
                  /\ \A i \in DOMAIN parsed.folders :
                        FirstIndex(parsed.folders[i], subfolder_separator) = 0
                  /\ Join(parsed.folders, subfolder_separator) = SubSeq(line, 1, at - 1)
            /\ line = <<"a", ",", "a", "|", "x">> =>
                  parsed.folders = << <<"a">>, <<"a">> >> /\ parsed.url = <<"x">>

C4_Witness ==
    /\ parsed.done
    /\ line = <<"a", ",", "a", "|", "x">>
    /\ Len(parsed.folders) = 2

\* ---------------------------------------------------------------- C5
\* (a.folders, a.url) < (b.folders, b.url), compared as a pair
KeyLt(a, b) ==
    \/ ListLt(a.folders, b.folders)
    \/ a.folders = b.folders /\ StrLt(a.url, b.url)

\* C5: with the sort option set, the list handed to the tree builder is in
\* non-descending order of the key (folders, url), folders compared first.
C5_SortedByFoldersThenUrl ==
    (sort /\ pc \in {"build", "done"}) =>
        \A i \in 1..(Len(bookmarks) - 1) : ~KeyLt(bookmarks[i + 1], bookmarks[i])

\* ---------------------------------------------------------------- C6
\* C6: every processed record is in the bookmarks list of the node reached
\* from the root along its folder path (the root for an empty path), no node
\* holds a record with another folder path, and the tree has exactly the
\* nodes the folder paths of the processed records name, each once.
C6_RecordAtItsPath ==
    LET paths == NodePaths(bookmarks_dict, <<>>)
    IN  /\ \A j \in DOMAIN Processed :
              /\ Processed[j].folders \in paths
              /\ Processed[j] \in Range(NodeAt(bookmarks_dict, Processed[j].folders).bookmarks)
        /\ \A q \in paths :
              \A r \in Range(NodeAt(bookmarks_dict, q).bookmarks) : r.folders = q
        /\ paths = FolderPaths(Processed) \cup {<<>>}
        /\ NodeCount(bookmarks_dict) = Cardinality(paths)

C6_Witness ==
    /\ pc = "done"
    /\ \E i, j \in DOMAIN bookmarks :
          /\ Len(bookmarks[i].folders) = 2
          /\ bookmarks[j].folders = <<>>
          /\ bookmarks[i] \in Range(NodeAt(bookmarks_dict, bookmarks[i].folders).bookmarks)

\* ---------------------------------------------------------------- C7
\* C7: the bookmarks list of every node is the subsequence of the processed
\* records that carry the node's folder path, in the order the builder got
\* them.
C7_SameFolderKeepsOrder ==
    \A q \in NodePaths(bookmarks_dict, <<>>) :
        NodeAt(bookmarks_dict, q).bookmarks = WithFolders(Processed, q)

C7_Witness ==
    /\ pc = "done"
    /\ Len(bookmarks) = 3
    /\ bookmarks[1].folders = bookmarks[3].folders
    /\ bookmarks[1].folders # <<>>
    /\ bookmarks[2].folders # bookmarks[1].folders
    /\ bookmarks[1] # bookmarks[3]
    /\ NodeAt(bookmarks_dict, bookmarks[1].folders).bookmarks = <<bookmarks[1], bookmarks[3]>>

\* ---------------------------------------------------------------- C8
\* C8: Config.get(key, default) returns, and returns the default for a key
\* the document does not hold; Utils construction succeeds for every
\* document.
C8_MissingKeyGivesDefault ==
    /\ got.op = "get" =>
          /\ got.status = "returned"
          /\ (values.is_none \/ got.key \notin DOMAIN values.items) =>
                got.value = Default(got.key)
    /\ got.op = "init" => got.status = "returned"

\* ---------------------------------------------------------------- C9
\* C9: when the page was fetched and parsed and has a title element with
\* text, the record's title is that text, whatever happens to the favicon.
C9_TitleIsExtractedTitle ==
    (/\ result.status # "none"
     /\ outcome.fetch = "ok"
     /\ outcome.parse = "ok"
     /\ outcome.title = "text") =>
        /\ result.status = "returned"
        /\ result.info.title = Strip(PageTitle)

\* ---------------------------------------------------------------- C10
\* the rendered elements in document order: a folder's heading with the
\* folder's path, or a bookmark with the path of the folder it is written in
RECURSIVE Flat(_, _)
Flat(children, path) ==
    IF children = <<>> THEN <<>>
    ELSE LET e == Head(children)
         IN  (IF e.tag = "h3"
              THEN <<[kind |-> "folder", path |-> Append(path, e.text),
                      el |-> [e EXCEPT !.children = <<>>]]>>
                   \o Flat(e.children, Append(path, e.text))
              ELSE <<[kind |-> "bookmark", path |-> path, el |-> e]>>)
             \o Flat(Tail(children), path)

\* the index of the first record handed to the builder that lies in or
\* below the folder
FirstSeen(q) ==
    CHOOSE j \in DOMAIN bookmarks :
        /\ IsPrefix(q, bookmarks[j].folders)
        /\ \A i \in 1..(j - 1) : ~IsPrefix(q, bookmarks[i].folders)

\* C10: in the rendered document (1) the bookmarks written in a folder are
\* the node's list, in the list's order; (2) nothing of a sub-folder comes
\* after a bookmark of the folder itself, at the root and in every folder;
\* (3) every folder has one heading, and sibling folders come in first-seen
\* order; (4) depth-first: all that lies in or below a folder is one
\* unbroken block that starts with the folder's heading.
C10_RenderOrder ==
    pc = "done" =>
        LET E == Flat(elements, <<>>)
            paths == NodePaths(bookmarks_dict, <<>>)
            At(q) == LET Here(ev) == ev.kind = "bookmark" /\ ev.path = q
                     IN  SelectSeq(E, Here)
            Headings == { i \in DOMAIN E : E[i].kind = "folder" }
        IN  /\ \A q \in paths :
                  LET own == NodeAt(bookmarks_dict, q).bookmarks
                  IN  /\ Len(At(q)) = Len(own)
                      /\ \A i \in DOMAIN own : At(q)[i].el = html(own[i])
            /\ \A i, j \in DOMAIN E :
                  (i < j /\ E[i].kind = "bookmark") =>
                      ~(IsPrefix(E[i].path, E[j].path) /\ E[j].path # E[i].path)
            /\ { E[i].path : i \in Headings } = paths \ {<<>>}
            /\ \A i, j \in Headings :
                  /\ (i # j) => E[i].path # E[j].path
                  /\ (i < j /\ Front(E[i].path) = Front(E[j].path)) =>
                        FirstSeen(E[i].path) < FirstSeen(E[j].path)
            /\ \A i \in Headings : \A j \in DOMAIN E :
                  IsPrefix(E[i].path, E[j].path) =>
                      /\ j >= i
                      /\ \A k \in i..j : IsPrefix(E[i].path, E[k].path)
            /\ \A i \in DOMAIN E : E[i].path \in paths

C10_Witness ==
    /\ pc = "done"
    /\ Len(bookmarks_dict.bookmarks) >= 1
    /\ \E i \in DOMAIN bookmarks_dict.folders :
          /\ Len(bookmarks_dict.folders[i].value.bookmarks) >= 1
          /\ Len(bookmarks_dict.folders[i].value.folders) >= 1
    /\ Len(Flat(elements, <<>>)) = 5


====
